---- MODULE Spec2Model ----
(***************************************************************************)
(* A model of the two buffer-pool cores of BusTub:                         *)
(*   - LRUKReplacer        (src/buffer/lru_k_replacer.cpp)                 *)
(*   - ExtendibleHashTable (src/container/hash/extendible_hash_table.cpp)  *)
(*                                                                         *)
(* Spec      : the replacer, every public call one atomic action.          *)
(* SpecHash  : the hash table, every public call one atomic action.        *)
(* SpecConc  : the replacer called from several threads, every call split  *)
(*             at its latch acquisition and at each write of shared state. *)
(* SpecStep  : the hash table, Insert one action per pass of its loop;     *)
(*             SpecStepFair adds that a running Insert keeps running.      *)
(***************************************************************************)
EXTENDS Integers, Sequences, FiniteSets, TLC

\* ------------------------------------------------------------------ bounds
\* num_frames given to the constructor (replacer_size_)
NumFrames == 2
\* k given to the constructor (k_)
K == 2
\* RecordAccess is called at most MaxTime times (caps current_timestamp_)
MaxTime == 4

\* std::numeric_limits<size_t>::max(); any number above every timestamp
SizeMax == 2147483647

replacer_size_ == NumFrames
k_ == K

\* frame ids the callers pass to SetEvictable and Remove: the two smallest and
\* the largest that RecordAccess accepts
KnownIds == {0, 1, NumFrames}

\* frame ids the callers pass to RecordAccess: also the first it rejects
FrameIds == KnownIds \cup {NumFrames + 1}

\* threads that call into one replacer (SpecConc)
NumThreads == 2

Threads == 1..NumThreads

\* latch_ held by no thread
Free == 0

\* the constructor's bucket_size is drawn from 1..MaxBucketSize
MaxBucketSize == 2

\* the largest key the callers use
MaxKey == 4

\* the keys the callers use: 0 and 4 agree in their two low bits, 1 and 3 in
\* their low bit, so few keys reach global depth 3 and buckets of every depth
Keys == (0..MaxKey) \ {2}

Values == {"A", "B"}

\* frame ids the threads of SpecConc pass
ConcIds == 0..1

\* frame_map_.end(), and the value of an out parameter that was not written
End == -1

VARIABLES
  frame_map,          \* frame_map_: frame id -> FrameInfo
  curr_size,          \* curr_size_
  current_timestamp,  \* current_timestamp_
  aborted,            \* a BUSTUB_ASSERT failed: the process is gone
  op,                 \* the last public call
  arg,                \* its arguments
  ret,                \* how it returned
  out,                \* Evict: *frame_id
  entry_map,          \* frame_map_ when the last call was entered
  entry_size,         \* curr_size_ when the last call was entered
  pc,                 \* SpecConc: where each thread is in its call
  latch,              \* SpecConc: the thread that holds latch_, or Free
  loc,                \* SpecConc: each thread's arguments and locals
  size_ret,           \* SpecConc: what each thread's last Size() returned
  bucket_size,        \* bucket_size_
  dir,                \* dir_: slot i of the code is dir[i + 1], a bucket's identity
  buckets,            \* the Bucket objects, by identity: depth_ and list_
  global_depth,       \* global_depth_
  num_buckets,        \* num_buckets_
  h_op,               \* the last public call on the table
  h_arg,              \* its arguments
  h_ret,              \* what it returned
  h_entry,            \* the table when the last call (SpecStep: step) was entered
  ins,                \* SpecStep: the key and value of the Insert in progress
  ref                 \* a plain key -> value map given the same Insert and Remove calls

\* the replacer's members
members == <<frame_map, curr_size, current_timestamp, aborted>>

\* the record of the last call
call == <<op, arg, ret, out, entry_map, entry_size>>

cvars == <<pc, latch, loc, size_ret>>

\* the hash table's members, and the record of its last call
hvars == <<bucket_size, dir, buckets, global_depth, num_buckets, h_op, h_arg, h_ret, h_entry,
           ins, ref>>

vars == <<members, call, cvars, hvars>>

\* FrameInfo{}: empty history, evictable_ = false
FrameInfo == [access_history_ |-> <<>>, evictable_ |-> FALSE]

Tracked(map) == DOMAIN map

Erase(map, f) == [g \in (DOMAIN map) \ {f} |-> map[g]]

Put(map, f, info) == [g \in (DOMAIN map) \cup {f} |-> IF g = f THEN info ELSE map[g]]

\* ------------------------------------------------------------------ Evict
\* the loop's locals before the first iteration
ScanInit == [to_evict |-> End, less_than_k |-> FALSE, max_distance |-> SizeMax]

\* ScanStep without the branch that lets an infant replace a mature candidate
ScanStep_NoInfantOverride(map, acc, f) ==
  LET h == map[f].access_history_ IN
  IF ~map[f].evictable_ THEN acc
  ELSE IF acc.to_evict = End
    THEN [to_evict |-> f, less_than_k |-> (Len(h) < k_), max_distance |-> Head(h)]
  ELSE IF \/ (acc.less_than_k /\ Len(h) < k_ /\ acc.max_distance > Head(h))
          \/ (~acc.less_than_k /\ Len(h) = k_ /\ acc.max_distance > Head(h))
    THEN [acc EXCEPT !.max_distance = Head(h), !.to_evict = f]
  ELSE acc

\* ScanStep without the skip of non-evictable records
ScanStep_NoSkip(map, acc, f) ==
  LET h == map[f].access_history_ IN
  IF acc.to_evict = End
    THEN [to_evict |-> f, less_than_k |-> (Len(h) < k_), max_distance |-> Head(h)]
  ELSE IF ~acc.less_than_k /\ Len(h) < k_
    THEN [acc EXCEPT !.less_than_k = TRUE, !.to_evict = f]
  ELSE IF \/ (acc.less_than_k /\ Len(h) < k_ /\ acc.max_distance > Head(h))
          \/ (~acc.less_than_k /\ Len(h) = k_ /\ acc.max_distance > Head(h))
    THEN [acc EXCEPT !.max_distance = Head(h), !.to_evict = f]
  ELSE acc

\* one iteration of Evict's for loop, at the record of frame f
ScanStep(map, acc, f) ==
  LET h == map[f].access_history_ IN
  IF ~map[f].evictable_ THEN acc
  ELSE IF acc.to_evict = End
    THEN [to_evict |-> f, less_than_k |-> (Len(h) < k_), max_distance |-> Head(h)]
  ELSE IF ~acc.less_than_k /\ Len(h) < k_
    THEN [acc EXCEPT !.less_than_k = TRUE, !.to_evict = f]
  ELSE IF \/ (acc.less_than_k /\ Len(h) < k_ /\ acc.max_distance > Head(h))
          \/ (~acc.less_than_k /\ Len(h) = k_ /\ acc.max_distance > Head(h))
    THEN [acc EXCEPT !.max_distance = Head(h), !.to_evict = f]
  ELSE acc

\* Evict's for loop over the records not yet visited: frame_map_ fixes no
\* iteration order, so the next record is any of them; the set of frames the
\* loop can end on
RECURSIVE Scan(_, _, _)
Scan(map, acc, rest) ==
  IF rest = {} THEN {acc.to_evict}
  ELSE UNION {Scan(map, ScanStep(map, acc, f), rest \ {f}) : f \in rest}

\* the frames Evict's loop can end on, over every iteration order of frame_map_
Victims(map) == Scan(map, ScanInit, Tracked(map))

Enter(name, a) ==
  /\ ~aborted
  /\ op' = name
  /\ arg' = a
  /\ entry_map' = frame_map
  /\ entry_size' = curr_size
  /\ UNCHANGED <<cvars, hvars>>

EvictEmpty ==
  /\ Enter("Evict", <<>>)
  /\ curr_size = 0
  /\ ret' = "false"
  /\ out' = End
  /\ UNCHANGED <<frame_map, curr_size, current_timestamp, aborted>>

EvictVictim ==
  /\ Enter("Evict", <<>>)
  /\ curr_size # 0
  /\ \E v \in Victims(frame_map) :
       \* to_evict == end() is dereferenced: undefined, any frame id comes back
       IF v = End
         THEN /\ out' \in FrameIds
              /\ frame_map' = frame_map
         ELSE /\ out' = v
              /\ frame_map' = Erase(frame_map, v)
  /\ curr_size' = curr_size - 1
  /\ ret' = "true"
  /\ UNCHANGED <<current_timestamp, aborted>>

Evict == EvictEmpty \/ EvictVictim

\* ----------------------------------------------------------- RecordAccess
RecordAccessAssert(frame_id) ==
  /\ Enter("RecordAccess", <<frame_id>>)
  /\ ~(frame_id <= replacer_size_)
  /\ aborted' = TRUE
  /\ ret' = "assert"
  /\ out' = End
  /\ UNCHANGED <<frame_map, curr_size, current_timestamp>>

\* Accessed without the pop_front of a history that grew beyond k_
Accessed_NoTrim(map, frame_id, ts) ==
  IF frame_id \notin Tracked(map)
    THEN Put(map, frame_id, [FrameInfo EXCEPT !.access_history_ = Append(@, ts)])
    ELSE [map EXCEPT ![frame_id].access_history_ = Append(@, ts)]

\* frame_map_ after RecordAccess(frame_id) at timestamp ts
Accessed(map, frame_id, ts) ==
  IF frame_id \notin Tracked(map)
    THEN Put(map, frame_id, [FrameInfo EXCEPT !.access_history_ = Append(@, ts)])
    ELSE LET pushed == Append(map[frame_id].access_history_, ts) IN
         [map EXCEPT ![frame_id].access_history_ =
            IF Len(pushed) > k_ THEN Tail(pushed) ELSE pushed]

\* RecordAccessOk reading current_timestamp_ without incrementing it
RecordAccessOk_NoTick(frame_id) ==
  /\ Enter("RecordAccess", <<frame_id>>)
  /\ current_timestamp < MaxTime
  /\ frame_id <= replacer_size_
  /\ frame_map' = Accessed(frame_map, frame_id, current_timestamp)
  /\ ret' = "void"
  /\ out' = End
  /\ UNCHANGED <<curr_size, current_timestamp, aborted>>

RecordAccessOk(frame_id) ==
  /\ Enter("RecordAccess", <<frame_id>>)
  /\ current_timestamp < MaxTime
  /\ frame_id <= replacer_size_
  /\ frame_map' = Accessed(frame_map, frame_id, current_timestamp)
  /\ current_timestamp' = current_timestamp + 1
  /\ ret' = "void"
  /\ out' = End
  /\ UNCHANGED <<curr_size, aborted>>

RecordAccess(frame_id) == RecordAccessAssert(frame_id) \/ RecordAccessOk(frame_id)

\* ----------------------------------------------------------- SetEvictable
SetEvictableAssert(frame_id, set_evictable) ==
  /\ Enter("SetEvictable", <<frame_id, set_evictable>>)
  /\ frame_id \notin Tracked(frame_map)
  /\ aborted' = TRUE
  /\ ret' = "assert"
  /\ out' = End
  /\ UNCHANGED <<frame_map, curr_size, current_timestamp>>

\* SetEvictableOk counting every call, also one that does not change the flag
SetEvictableOk_AlwaysCounts(frame_id, set_evictable) ==
  /\ Enter("SetEvictable", <<frame_id, set_evictable>>)
  /\ frame_id \in Tracked(frame_map)
  /\ frame_map' = [frame_map EXCEPT ![frame_id].evictable_ = set_evictable]
  /\ curr_size' = IF set_evictable THEN curr_size + 1 ELSE curr_size - 1
  /\ ret' = "void"
  /\ out' = End
  /\ UNCHANGED <<current_timestamp, aborted>>

SetEvictableOk(frame_id, set_evictable) ==
  /\ Enter("SetEvictable", <<frame_id, set_evictable>>)
  /\ frame_id \in Tracked(frame_map)
  /\ IF frame_map[frame_id].evictable_ # set_evictable
       THEN /\ frame_map' = [frame_map EXCEPT ![frame_id].evictable_ = set_evictable]
            /\ curr_size' = IF set_evictable THEN curr_size + 1 ELSE curr_size - 1
       ELSE UNCHANGED <<frame_map, curr_size>>
  /\ ret' = "void"
  /\ out' = End
  /\ UNCHANGED <<current_timestamp, aborted>>

SetEvictable(frame_id, set_evictable) ==
  SetEvictableAssert(frame_id, set_evictable) \/ SetEvictableOk(frame_id, set_evictable)

\* ----------------------------------------------------------------- Remove
RemoveUntracked(frame_id) ==
  /\ Enter("Remove", <<frame_id>>)
  /\ frame_id \notin Tracked(frame_map)
  /\ ret' = "void"
  /\ out' = End
  /\ UNCHANGED <<frame_map, curr_size, current_timestamp, aborted>>

\* RemoveThrow without the evictable_ check: the record is erased
RemoveThrow_Erases(frame_id) ==
  /\ Enter("Remove", <<frame_id>>)
  /\ frame_id \in Tracked(frame_map)
  /\ ~frame_map[frame_id].evictable_
  /\ frame_map' = Erase(frame_map, frame_id)
  /\ curr_size' = curr_size - 1
  /\ ret' = "void"
  /\ out' = End
  /\ UNCHANGED <<current_timestamp, aborted>>

RemoveThrow(frame_id) ==
  /\ Enter("Remove", <<frame_id>>)
  /\ frame_id \in Tracked(frame_map)
  /\ ~frame_map[frame_id].evictable_
  /\ ret' = "throw"
  /\ out' = End
  /\ UNCHANGED <<frame_map, curr_size, current_timestamp, aborted>>

\* RemoveErase without the decrement of curr_size_
RemoveErase_NoDecrement(frame_id) ==
  /\ Enter("Remove", <<frame_id>>)
  /\ frame_id \in Tracked(frame_map)
  /\ frame_map[frame_id].evictable_
  /\ frame_map' = Erase(frame_map, frame_id)
  /\ ret' = "void"
  /\ out' = End
  /\ UNCHANGED <<curr_size, current_timestamp, aborted>>

RemoveErase(frame_id) ==
  /\ Enter("Remove", <<frame_id>>)
  /\ frame_id \in Tracked(frame_map)
  /\ frame_map[frame_id].evictable_
  /\ frame_map' = Erase(frame_map, frame_id)
  /\ curr_size' = curr_size - 1
  /\ ret' = "void"
  /\ out' = End
  /\ UNCHANGED <<current_timestamp, aborted>>

Remove(frame_id) ==
  RemoveUntracked(frame_id) \/ RemoveThrow(frame_id) \/ RemoveErase(frame_id)

\* ------------------------------------------------------------------- Size
Size ==
  /\ Enter("Size", <<>>)
  /\ ret' = "size"
  /\ out' = curr_size
  /\ UNCHANGED <<frame_map, curr_size, current_timestamp, aborted>>

\* ------------------------------------------------- the calls, per thread
\* std::scoped_lock<std::mutex> lock(latch_): the caller blocks until the latch
\* is free, then holds it to the end of the call
Acquire(t, label, locals) ==
  /\ ~aborted
  /\ pc[t] = "idle"
  /\ latch = Free
  /\ latch' = t
  /\ pc' = [pc EXCEPT ![t] = label]
  /\ loc' = [loc EXCEPT ![t] = locals]

\* the call returns (or throws): the scoped_lock is destroyed
Release(t) ==
  /\ latch' = Free
  /\ pc' = [pc EXCEPT ![t] = "idle"]
  /\ loc' = [loc EXCEPT ![t] = <<>>]

At(t, label) == ~aborted /\ pc[t] = label

Goto(t, label) == pc' = [pc EXCEPT ![t] = label] /\ UNCHANGED latch

T_EvictCall(t) ==
  /\ Acquire(t, "Evict_scan", <<>>)
  /\ UNCHANGED <<members, call, size_ret, hvars>>

T_EvictEmpty(t) ==
  /\ At(t, "Evict_scan")
  /\ curr_size = 0
  /\ Release(t)
  /\ UNCHANGED <<members, call, size_ret, hvars>>

T_EvictScan(t) ==
  /\ At(t, "Evict_scan")
  /\ curr_size # 0
  /\ \E v \in Victims(frame_map) : loc' = [loc EXCEPT ![t] = <<v>>]
  /\ Goto(t, "Evict_erase")
  /\ UNCHANGED <<members, call, size_ret, hvars>>

T_EvictErase(t) ==
  /\ At(t, "Evict_erase")
  /\ frame_map' = IF loc[t][1] = End THEN frame_map ELSE Erase(frame_map, loc[t][1])
  /\ Goto(t, "Evict_dec")
  /\ UNCHANGED <<curr_size, current_timestamp, aborted, call, loc, size_ret, hvars>>

T_EvictDec(t) ==
  /\ At(t, "Evict_dec")
  /\ curr_size' = curr_size - 1
  /\ Release(t)
  /\ UNCHANGED <<frame_map, current_timestamp, aborted, call, size_ret, hvars>>

T_RecordAccessCall(t, frame_id) ==
  /\ current_timestamp < MaxTime
  /\ Acquire(t, "RecordAccess_body", <<frame_id>>)
  /\ UNCHANGED <<members, call, size_ret, hvars>>

T_RecordAccessAssert(t) ==
  /\ At(t, "RecordAccess_body")
  /\ ~(loc[t][1] <= replacer_size_)
  /\ aborted' = TRUE
  /\ UNCHANGED <<frame_map, curr_size, current_timestamp, call, cvars, hvars>>

T_RecordAccessBody(t) ==
  /\ At(t, "RecordAccess_body")
  /\ loc[t][1] <= replacer_size_
  /\ frame_map' = Accessed(frame_map, loc[t][1], current_timestamp)
  /\ current_timestamp' = current_timestamp + 1
  /\ Release(t)
  /\ UNCHANGED <<curr_size, aborted, call, size_ret, hvars>>

T_SetEvictableCall(t, frame_id, set_evictable) ==
  /\ Acquire(t, "SetEvictable_body", <<frame_id, set_evictable>>)
  /\ UNCHANGED <<members, call, size_ret, hvars>>

T_SetEvictableAssert(t) ==
  /\ At(t, "SetEvictable_body")
  /\ loc[t][1] \notin Tracked(frame_map)
  /\ aborted' = TRUE
  /\ UNCHANGED <<frame_map, curr_size, current_timestamp, call, cvars, hvars>>

T_SetEvictableSame(t) ==
  /\ At(t, "SetEvictable_body")
  /\ loc[t][1] \in Tracked(frame_map)
  /\ frame_map[loc[t][1]].evictable_ = loc[t][2]
  /\ Release(t)
  /\ UNCHANGED <<members, call, size_ret, hvars>>

T_SetEvictableFlag(t) ==
  /\ At(t, "SetEvictable_body")
  /\ loc[t][1] \in Tracked(frame_map)
  /\ frame_map[loc[t][1]].evictable_ # loc[t][2]
  /\ frame_map' = [frame_map EXCEPT ![loc[t][1]].evictable_ = loc[t][2]]
  /\ Goto(t, "SetEvictable_count")
  /\ UNCHANGED <<curr_size, current_timestamp, aborted, call, loc, size_ret, hvars>>

T_SetEvictableCount(t) ==
  /\ At(t, "SetEvictable_count")
  /\ curr_size' = IF loc[t][2] THEN curr_size + 1 ELSE curr_size - 1
  /\ Release(t)
  /\ UNCHANGED <<frame_map, current_timestamp, aborted, call, size_ret, hvars>>

T_RemoveCall(t, frame_id) ==
  /\ Acquire(t, "Remove_body", <<frame_id>>)
  /\ UNCHANGED <<members, call, size_ret, hvars>>

T_RemoveUntracked(t) ==
  /\ At(t, "Remove_body")
  /\ loc[t][1] \notin Tracked(frame_map)
  /\ Release(t)
  /\ UNCHANGED <<members, call, size_ret, hvars>>

T_RemoveThrow(t) ==
  /\ At(t, "Remove_body")
  /\ loc[t][1] \in Tracked(frame_map)
  /\ ~frame_map[loc[t][1]].evictable_
  /\ Release(t)
  /\ UNCHANGED <<members, call, size_ret, hvars>>

T_RemoveErase(t) ==
  /\ At(t, "Remove_body")
  /\ loc[t][1] \in Tracked(frame_map)
  /\ frame_map[loc[t][1]].evictable_
  /\ frame_map' = Erase(frame_map, loc[t][1])
  /\ Goto(t, "Remove_dec")
  /\ UNCHANGED <<curr_size, current_timestamp, aborted, call, loc, size_ret, hvars>>

T_RemoveDec(t) ==
  /\ At(t, "Remove_dec")
  /\ curr_size' = curr_size - 1
  /\ Release(t)
  /\ UNCHANGED <<frame_map, current_timestamp, aborted, call, size_ret, hvars>>

\* Size() takes no lock: the caller goes straight to the read of curr_size_
T_SizeCall(t) ==
  /\ At(t, "idle")
  /\ Goto(t, "Size_read")
  /\ UNCHANGED <<members, call, loc, size_ret, hvars>>

T_SizeRead(t) ==
  /\ At(t, "Size_read")
  /\ size_ret' = [size_ret EXCEPT ![t] = curr_size]
  /\ Goto(t, "idle")
  /\ UNCHANGED <<members, call, loc, hvars>>

\* ============================================================ hash table
\* std::hash<int>: the key itself
Hash(key) == key

\* x & ((1 << n) - 1)
LowBits(x, n) == x % (2 ^ n)

\* a table as a value: the members the calls read and write
Table ==
  [bucket_size |-> bucket_size, dir |-> dir, buckets |-> buckets,
   global_depth |-> global_depth, num_buckets |-> num_buckets]

\* Bucket(array_size, depth): an empty list
Bucket(array_size, depth) == [size_ |-> array_size, depth_ |-> depth, list_ |-> <<>>]

\* the identity of the bucket that dir_[index] points to
Slot(T, index) == T.dir[index + 1]

IndexOf(T, key) == LowBits(Hash(key), T.global_depth)

\* the position of the first entry of the list with this key, 0 if none
Position(list, key) ==
  IF \E i \in 1..Len(list) : list[i][1] = key
    THEN CHOOSE i \in 1..Len(list) :
           list[i][1] = key /\ \A j \in 1..(i - 1) : list[j][1] # key
    ELSE 0

\* Bucket::IsFull
IsFull(b) == Len(b.list_) = b.size_

\* Bucket::Find: <<true, the value>> or <<false>>
BucketFind(b, key) ==
  LET i == Position(b.list_, key) IN
  IF i # 0 THEN <<TRUE, b.list_[i][2]>> ELSE <<FALSE>>

\* Bucket::Remove reporting the key without erasing its entry
BucketRemove_KeepsEntry(b, key) ==
  [ok |-> Position(b.list_, key) # 0, bucket |-> b]

\* Bucket::Remove: what it returns and the bucket afterwards
BucketRemove(b, key) ==
  LET i == Position(b.list_, key) IN
  IF i # 0
    THEN [ok |-> TRUE,
          bucket |-> [b EXCEPT !.list_ = SubSeq(@, 1, i - 1) \o SubSeq(@, i + 1, Len(@))]]
    ELSE [ok |-> FALSE, bucket |-> b]

\* Bucket::Insert finding the key without assigning the new value
BucketInsert_KeepsValue(b, key, value) ==
  IF Position(b.list_, key) # 0 THEN [ok |-> TRUE, bucket |-> b]
  ELSE IF ~IsFull(b)
    THEN [ok |-> TRUE, bucket |-> [b EXCEPT !.list_ = Append(@, <<key, value>>)]]
  ELSE [ok |-> FALSE, bucket |-> b]

\* Bucket::Insert appending a new key without the IsFull() test
BucketInsert_NoFullTest(b, key, value) ==
  LET i == Position(b.list_, key) IN
  IF i # 0 THEN [ok |-> TRUE, bucket |-> [b EXCEPT !.list_[i] = <<key, value>>]]
  ELSE [ok |-> TRUE, bucket |-> [b EXCEPT !.list_ = Append(@, <<key, value>>)]]

\* Bucket::Insert: what it returns and the bucket afterwards
BucketInsert(b, key, value) ==
  LET i == Position(b.list_, key) IN
  IF i # 0 THEN [ok |-> TRUE, bucket |-> [b EXCEPT !.list_[i] = <<key, value>>]]
  ELSE IF ~IsFull(b)
    THEN [ok |-> TRUE, bucket |-> [b EXCEPT !.list_ = Append(@, <<key, value>>)]]
  ELSE [ok |-> FALSE, bucket |-> b]

\* p->Insert(it->first, it->second) for the entries of items from position i on
RECURSIVE InsertAll(_, _, _)
InsertAll(b, items, i) ==
  IF i > Len(items) THEN b
  ELSE InsertAll(BucketInsert(b, items[i][1], items[i][2]).bucket, items, i + 1)

\* RedistributeBucket repointing every slot whose low depth bits differ from
\* prev_idx, without the test of the low depth - 1 bits
RedistributeBucket_AnySlot(T, b) ==
  LET depth == T.buckets[b].depth_
      p == Len(T.buckets) + 1
      items == T.buckets[b].list_
      prev_idx == LowBits(Hash(items[1][1]), depth - 1)
      Stays(e) == LowBits(Hash(e[1]), depth) = prev_idx
      Moves(e) == ~Stays(e)
      sibling == InsertAll(Bucket(T.bucket_size, depth), SelectSeq(items, Moves), 1)
  IN [T EXCEPT
        !.num_buckets = @ + 1,
        !.buckets = Append([@ EXCEPT ![b].list_ = SelectSeq(items, Stays)], sibling),
        !.dir = [i \in 1..Len(T.dir) |->
                   IF LowBits(i - 1, depth) # prev_idx THEN p ELSE T.dir[i]]]

\* RedistributeBucket repointing only the first of the slots that now belong
\* to the sibling
RedistributeBucket_FirstSlot(T, b) ==
  LET depth == T.buckets[b].depth_
      p == Len(T.buckets) + 1
      items == T.buckets[b].list_
      prev_idx == LowBits(Hash(items[1][1]), depth - 1)
      Stays(e) == LowBits(Hash(e[1]), depth) = prev_idx
      Moves(e) == ~Stays(e)
      sibling == InsertAll(Bucket(T.bucket_size, depth), SelectSeq(items, Moves), 1)
      moved == {i \in 1..Len(T.dir) : /\ LowBits(i - 1, depth - 1) = prev_idx
                                      /\ LowBits(i - 1, depth) # prev_idx}
      first == CHOOSE i \in moved : \A j \in moved : i <= j
  IN [T EXCEPT
        !.num_buckets = @ + 1,
        !.buckets = Append([@ EXCEPT ![b].list_ = SelectSeq(items, Stays)], sibling),
        !.dir = [i \in 1..Len(T.dir) |-> IF i = first THEN p ELSE T.dir[i]]]

\* RedistributeBucket without num_buckets_++
RedistributeBucket_NoCount(T, b) ==
  LET depth == T.buckets[b].depth_
      p == Len(T.buckets) + 1
      items == T.buckets[b].list_
      prev_idx == LowBits(Hash(items[1][1]), depth - 1)
      Stays(e) == LowBits(Hash(e[1]), depth) = prev_idx
      Moves(e) == ~Stays(e)
      sibling == InsertAll(Bucket(T.bucket_size, depth), SelectSeq(items, Moves), 1)
  IN [T EXCEPT
        !.buckets = Append([@ EXCEPT ![b].list_ = SelectSeq(items, Stays)], sibling),
        !.dir = [i \in 1..Len(T.dir) |->
                   IF /\ LowBits(i - 1, depth - 1) = prev_idx
                      /\ LowBits(i - 1, depth) # prev_idx
                     THEN p ELSE T.dir[i]]]

\* RedistributeBucket erasing the entries that leave the bucket without
\* inserting them into the new bucket
RedistributeBucket_DropsMoved(T, b) ==
  LET depth == T.buckets[b].depth_
      p == Len(T.buckets) + 1
      items == T.buckets[b].list_
      prev_idx == LowBits(Hash(items[1][1]), depth - 1)
      Stays(e) == LowBits(Hash(e[1]), depth) = prev_idx
  IN [T EXCEPT
        !.num_buckets = @ + 1,
        !.buckets = Append([@ EXCEPT ![b].list_ = SelectSeq(items, Stays)],
                           Bucket(T.bucket_size, depth)),
        !.dir = [i \in 1..Len(T.dir) |->
                   IF /\ LowBits(i - 1, depth - 1) = prev_idx
                      /\ LowBits(i - 1, depth) # prev_idx
                     THEN p ELSE T.dir[i]]]

\* RedistributeBucket(bucket), bucket being the object of identity b
RedistributeBucket(T, b) ==
  LET depth == T.buckets[b].depth_
      p == Len(T.buckets) + 1
      items == T.buckets[b].list_
      prev_idx == LowBits(Hash(items[1][1]), depth - 1)
      Stays(e) == LowBits(Hash(e[1]), depth) = prev_idx
      Moves(e) == ~Stays(e)
      sibling == InsertAll(Bucket(T.bucket_size, depth), SelectSeq(items, Moves), 1)
  IN [T EXCEPT
        !.num_buckets = @ + 1,
        !.buckets = Append([@ EXCEPT ![b].list_ = SelectSeq(items, Stays)], sibling),
        !.dir = [i \in 1..Len(T.dir) |->
                   IF /\ LowBits(i - 1, depth - 1) = prev_idx
                      /\ LowBits(i - 1, depth) # prev_idx
                     THEN p ELSE T.dir[i]]]

\* Grow whose doubling fills the new half of the directory with dir_[0]
Grow_NewHalfFirstBucket(T, index) ==
  LET b == Slot(T, index) IN
  IF T.buckets[b].depth_ < T.global_depth
    THEN RedistributeBucket([T EXCEPT !.buckets[b].depth_ = @ + 1], b)
    ELSE [T EXCEPT !.dir = T.dir \o [i \in 1..Len(T.dir) |-> T.dir[1]],
                   !.global_depth = @ + 1]

\* Grow whose split branch leaves the bucket and the directory as they are
Grow_NoSplit(T, index) ==
  LET b == Slot(T, index) IN
  IF T.buckets[b].depth_ < T.global_depth
    THEN T
    ELSE [T EXCEPT !.dir = T.dir \o T.dir, !.global_depth = @ + 1]

\* one pass of Insert's loop after the bucket refused the entry
Grow(T, index) ==
  LET b == Slot(T, index) IN
  IF T.buckets[b].depth_ < T.global_depth
    THEN RedistributeBucket([T EXCEPT !.buckets[b].depth_ = @ + 1], b)
    ELSE [T EXCEPT !.dir = T.dir \o T.dir, !.global_depth = @ + 1]

\* Insert's while (true) loop: the table when the call returns
RECURSIVE InsertLoop(_, _, _)
InsertLoop(T, key, value) ==
  LET index == IndexOf(T, key)
      r == BucketInsert(T.buckets[Slot(T, index)], key, value)
  IN IF r.ok THEN [T EXCEPT !.buckets[Slot(T, index)] = r.bucket]
     ELSE InsertLoop(Grow(T, index), key, value)

\* GetNumBuckets()
GetNumBuckets(T) == T.num_buckets

TableFind(T, key) == BucketFind(T.buckets[Slot(T, IndexOf(T, key))], key)

\* Remove lowering the local depth of a bucket it has emptied
TableRemove_Shrinks(T, key) ==
  LET b == Slot(T, IndexOf(T, key))
      r == BucketRemove(T.buckets[b], key)
      d == IF r.ok /\ r.bucket.list_ = <<>> /\ r.bucket.depth_ > 0
             THEN r.bucket.depth_ - 1 ELSE r.bucket.depth_
  IN [ok |-> r.ok, table |-> [T EXCEPT !.buckets[b] = [r.bucket EXCEPT !.depth_ = d]]]

TableRemove(T, key) ==
  LET b == Slot(T, IndexOf(T, key))
      r == BucketRemove(T.buckets[b], key)
  IN [ok |-> r.ok, table |-> [T EXCEPT !.buckets[b] = r.bucket]]

\* the plain map after the call
RefAfter(name, a) ==
  IF name = "Insert" THEN Put(ref, a[1], a[2])
  ELSE IF name = "Remove" THEN Erase(ref, a[1])
  ELSE ref

HEnter(name, a) ==
  /\ h_op' = name
  /\ h_arg' = a
  /\ h_entry' = Table
  /\ ref' = RefAfter(name, a)
  /\ UNCHANGED <<members, call, cvars, bucket_size, ins>>

Becomes(T) ==
  /\ dir' = T.dir
  /\ buckets' = T.buckets
  /\ global_depth' = T.global_depth
  /\ num_buckets' = T.num_buckets

Find(key) ==
  /\ HEnter("Find", <<key>>)
  /\ h_ret' = TableFind(Table, key)
  /\ UNCHANGED <<dir, buckets, global_depth, num_buckets>>

HRemove(key) ==
  /\ HEnter("Remove", <<key>>)
  /\ \E r \in {TableRemove(Table, key)} :
       /\ h_ret' = <<r.ok>>
       /\ Becomes(r.table)

Insert(key, value) ==
  /\ HEnter("Insert", <<key, value>>)
  /\ h_ret' = <<>>
  /\ \E T \in {InsertLoop(Table, key, value)} : Becomes(T)

\* ExtendibleHashTable(bucket_size)
HashNew(n) ==
  /\ bucket_size = n
  /\ global_depth = 0
  /\ num_buckets = 1
  /\ dir = <<1>>
  /\ buckets = <<Bucket(n, 0)>>
  /\ h_op = "new"
  /\ h_arg = <<n>>
  /\ h_ret = <<>>
  /\ h_entry = [bucket_size |-> n, dir |-> <<1>>, buckets |-> <<Bucket(n, 0)>>,
                global_depth |-> 0, num_buckets |-> 1]
  /\ ins = <<>>
  /\ ref = <<>>

\* ------------------------------------------- Insert, one pass of its loop
\* no Insert is running: latch_ is free for the next call
Idle == ins = <<>>

\* what dir_[index]->Insert(key, value) answers in the running Insert
Attempt == BucketInsert(buckets[Slot(Table, IndexOf(Table, ins[1]))], ins[1], ins[2])

\* the bucket the running Insert's key maps to, and its local depth
Target(T, key) == Slot(T, IndexOf(T, key))

StepEnter(name) ==
  /\ h_op' = name
  /\ h_entry' = Table
  /\ h_ret' = <<>>
  /\ UNCHANGED <<members, call, cvars, bucket_size>>

\* Insert(key, value) is called and takes the latch
InsertCall(key, value) ==
  /\ Idle
  /\ StepEnter("Insert_call")
  /\ h_arg' = <<key, value>>
  /\ ins' = <<key, value>>
  /\ UNCHANGED <<dir, buckets, global_depth, num_buckets, ref>>

\* the bucket took the entry: Insert returns
InsertStore ==
  /\ ~Idle
  /\ Attempt.ok
  /\ StepEnter("Insert_store")
  /\ buckets' = [buckets EXCEPT ![Target(Table, ins[1])] = Attempt.bucket]
  /\ ins' = <<>>
  /\ ref' = Put(ref, ins[1], ins[2])
  /\ UNCHANGED <<dir, global_depth, num_buckets, h_arg>>

\* the bucket is full and shallower than the directory: it is split
InsertSplit ==
  /\ ~Idle
  /\ ~Attempt.ok
  /\ buckets[Target(Table, ins[1])].depth_ < global_depth
  /\ StepEnter("Insert_split")
  /\ \E T \in {Grow(Table, IndexOf(Table, ins[1]))} : Becomes(T)
  /\ UNCHANGED <<ins, ref, h_arg>>

\* the bucket is full and as deep as the directory: the directory doubles
InsertDouble ==
  /\ ~Idle
  /\ ~Attempt.ok
  /\ ~(buckets[Target(Table, ins[1])].depth_ < global_depth)
  /\ StepEnter("Insert_double")
  /\ \E T \in {Grow(Table, IndexOf(Table, ins[1]))} : Becomes(T)
  /\ UNCHANGED <<ins, ref, h_arg>>

InsertStep == InsertStore \/ InsertSplit \/ InsertDouble

\* ------------------------------------------------------------ constructor
ReplacerInit ==
  /\ frame_map = <<>>
  /\ curr_size = 0
  /\ current_timestamp = 0
  /\ aborted = FALSE
  /\ op = "new"
  /\ arg = <<>>
  /\ ret = "void"
  /\ out = End
  /\ entry_map = <<>>
  /\ entry_size = 0

ConcInit ==
  /\ pc = [t \in Threads |-> "idle"]
  /\ latch = Free
  /\ loc = [t \in Threads |-> <<>>]
  /\ size_ret = [t \in Threads |-> 0]

Init == ReplacerInit /\ ConcInit /\ HashNew(1)

InitHash == ReplacerInit /\ ConcInit /\ \E n \in 1..MaxBucketSize : HashNew(n)

Next ==
  \/ Evict
  \/ \E f \in FrameIds : RecordAccess(f)
  \/ \E f \in KnownIds, e \in BOOLEAN : SetEvictable(f, e)
  \/ \E f \in KnownIds : Remove(f)
  \/ Size

Spec == Init /\ [][Next]_vars

NextConc ==
  \E t \in Threads :
    \/ T_EvictCall(t) \/ T_EvictEmpty(t) \/ T_EvictScan(t)
    \/ T_EvictErase(t) \/ T_EvictDec(t)
    \/ \E f \in ConcIds \cup {NumFrames + 1} : T_RecordAccessCall(t, f)
    \/ T_RecordAccessAssert(t) \/ T_RecordAccessBody(t)
    \/ \E f \in ConcIds, e \in BOOLEAN : T_SetEvictableCall(t, f, e)
    \/ T_SetEvictableAssert(t) \/ T_SetEvictableSame(t)
    \/ T_SetEvictableFlag(t) \/ T_SetEvictableCount(t)
    \/ \E f \in ConcIds : T_RemoveCall(t, f)
    \/ T_RemoveUntracked(t) \/ T_RemoveThrow(t)
    \/ T_RemoveErase(t) \/ T_RemoveDec(t)
    \/ T_SizeCall(t) \/ T_SizeRead(t)

SpecConc == Init /\ [][NextConc]_vars

NextHash ==
  \/ \E k \in Keys, v \in Values : Insert(k, v)
  \/ \E k \in Keys : Find(k)
  \/ \E k \in Keys : HRemove(k)

SpecHash == InitHash /\ [][NextHash]_vars

NextStep ==
  \/ \E k \in Keys, v \in Values : InsertCall(k, v)
  \/ InsertStore
  \/ InsertSplit
  \/ InsertDouble
  \/ \E k \in Keys : Idle /\ Find(k)
  \/ \E k \in Keys : Idle /\ HRemove(k)

SpecStep == InitHash /\ [][NextStep]_vars

\* a thread inside Insert's loop is not stopped: it runs the next pass
SpecStepFair == SpecStep /\ WF_vars(InsertStep)

\* ======================================================== replacer claims
EvictableIn(map) == {f \in DOMAIN map : map[f].evictable_}

History(map, f) == map[f].access_history_

\* fewer than K recorded accesses
Infant(map, f) == Len(History(map, f)) < k_

\* the last call was an Evict that returned true
Evicted == op = "Evict" /\ ret = "true"

\* C1: within the class Evict chose (infant or mature), the returned victim is
\* the evictable frame of that class with the smallest front-of-history
\* timestamp, whatever the order in which the scan visits the frames.
C1_VictimHasSmallestFront ==
  Evicted =>
    /\ out \in EvictableIn(entry_map)
    /\ \A g \in EvictableIn(entry_map) :
         Infant(entry_map, g) = Infant(entry_map, out)
           => Head(History(entry_map, out)) <= Head(History(entry_map, g))

\* C2: after any sequence of calls curr_size_ (what Size() returns) is the
\* number of tracked records whose evictable flag is set.
C2_SizeCountsEvictable ==
  /\ curr_size = Cardinality(EvictableIn(frame_map))
  /\ (op = "Size" => out = Cardinality(EvictableIn(frame_map)))

\* Size() was called with evictable and non-evictable records tracked, after a
\* record had been evicted or removed
C2_Witness ==
  /\ op = "Size"
  /\ out >= 1
  /\ \E f \in DOMAIN frame_map : ~frame_map[f].evictable_
  /\ Cardinality(DOMAIN frame_map) + 1 < current_timestamp

\* C3: when an evictable frame with fewer than K accesses exists at entry,
\* Evict returns a frame with fewer than K accesses; a frame with K accesses
\* comes back only when no evictable infant exists.
C3_InfantFirst ==
  Evicted =>
    /\ out \in DOMAIN entry_map
    /\ (\E g \in EvictableIn(entry_map) : Infant(entry_map, g)) => Infant(entry_map, out)
    /\ ~Infant(entry_map, out) => \A g \in EvictableIn(entry_map) : ~Infant(entry_map, g)

\* Evict returned an infant although a mature evictable frame was tracked
C3_Witness ==
  /\ Evicted
  /\ out \in DOMAIN entry_map
  /\ Infant(entry_map, out)
  /\ \E g \in EvictableIn(entry_map) : ~Infant(entry_map, g)

\* C4: Evict returns false exactly when no tracked frame is evictable, and
\* then changes nothing; otherwise it returns a frame that was tracked and
\* evictable at entry, erases its record and decrements curr_size_ by 1.
C4_EvictContract ==
  op = "Evict" =>
    /\ ret \in {"true", "false"}
    /\ ret = "false" <=> EvictableIn(entry_map) = {}
    /\ ret = "false" => frame_map = entry_map /\ curr_size = entry_size /\ out = End
    /\ ret = "true" =>
         /\ out \in EvictableIn(entry_map)
         /\ frame_map = Erase(entry_map, out)
         /\ curr_size = entry_size - 1

\* Evict returned a frame while a non-evictable frame was tracked
C4_Witness ==
  /\ Evicted
  /\ \E g \in DOMAIN entry_map : ~entry_map[g].evictable_
  /\ Cardinality(EvictableIn(entry_map)) >= 2

\* C5: Remove of a tracked non-evictable frame throws and changes nothing;
\* Remove of an untracked frame is a no-op; Remove of a tracked evictable
\* frame erases the record and decrements curr_size_ by 1.
C5_RemoveContract ==
  op = "Remove" =>
    LET f == arg[1] IN
    /\ (f \in DOMAIN entry_map /\ ~entry_map[f].evictable_) =>
         ret = "throw" /\ frame_map = entry_map /\ curr_size = entry_size
    /\ f \notin DOMAIN entry_map =>
         ret = "void" /\ frame_map = entry_map /\ curr_size = entry_size
    /\ (f \in DOMAIN entry_map /\ entry_map[f].evictable_) =>
         ret = "void" /\ frame_map = Erase(entry_map, f) /\ curr_size = entry_size - 1

\* Remove threw on a non-evictable frame while another frame was evictable
C5_Witness ==
  /\ op = "Remove"
  /\ ret = "throw"
  /\ entry_size >= 1

\* what SetEvictable does to a tracked frame: +1/-1 only when the flag changes
SetEvictableTracked ==
  LET f == arg[1]
      e == arg[2] IN
  f \in DOMAIN entry_map =>
    /\ ret = "void"
    /\ frame_map = [entry_map EXCEPT ![f].evictable_ = e]
    /\ curr_size = IF entry_map[f].evictable_ = e THEN entry_size
                   ELSE IF e THEN entry_size + 1 ELSE entry_size - 1

\* C6 as stated: SetEvictable on an untracked frame is a no-op that returns
\* normally; on a tracked frame curr_size_ changes by +1/-1 only when the flag
\* changes.
C6_UntrackedIsNoOp ==
  op = "SetEvictable" =>
    /\ arg[1] \notin DOMAIN entry_map =>
         ret = "void" /\ frame_map = entry_map /\ curr_size = entry_size
    /\ SetEvictableTracked

\* C6 amended: SetEvictable on an untracked frame fails the assertion at its
\* entry: the call traps instead of returning, no record is created and
\* curr_size_ is unchanged; on a tracked frame curr_size_ changes by +1/-1
\* only when the flag changes, and the call is idempotent otherwise.
C6_UntrackedTraps ==
  op = "SetEvictable" =>
    /\ arg[1] \notin DOMAIN entry_map =>
         ret = "assert" /\ aborted /\ frame_map = entry_map /\ curr_size = entry_size
    /\ SetEvictableTracked

\* SetEvictable(f, true) trapped on an untracked frame while others were tracked
C6_Witness ==
  /\ op = "SetEvictable"
  /\ ret = "assert"
  /\ arg[2] = TRUE
  /\ arg[1] \notin DOMAIN frame_map
  /\ entry_size >= 1

\* a thread that is inside a call, reading or writing the replacer's members
Accessing(t) == pc[t] # "idle"

\* a thread that has written frame_map_ and not yet curr_size_
MidUpdate(t) == pc[t] \in {"Evict_dec", "SetEvictable_count", "Remove_dec"}

\* C7: every public call (RecordAccess, SetEvictable, Remove, Evict and Size)
\* holds latch_ whenever it reads or writes the replacer's members, so no call
\* observes curr_size_ or frame_map_ while another call is mid-update.
C7_EveryCallHoldsLatch ==
  /\ \A t \in Threads : Accessing(t) => latch = t
  /\ \A t, u \in Threads : (t # u /\ MidUpdate(u)) => ~Accessing(t)

\* the part of C7 that is about what a call observes: Size() never reads
\* curr_size_ between another call's write of frame_map_ and of curr_size_
C7_NoTornSizeRead ==
  \A t, u \in Threads : (pc[t] = "Size_read" /\ t # u) => ~MidUpdate(u)

\* the calls that take the latch do exclude one another
LatchedCallsExclusive ==
  \A t \in Threads : (Accessing(t) /\ pc[t] # "Size_read") => latch = t

\* ====================================================== hash table claims
\* the keys in the list of the bucket of identity b
KeysOf(T, b) == {T.buckets[b].list_[j][1] : j \in 1..Len(T.buckets[b].list_)}

\* key is in some bucket of the table
Stored(T, key) == \E b \in DOMAIN T.buckets : key \in KeysOf(T, b)

RECURSIVE SumLen(_, _)
SumLen(bs, b) == IF b > Len(bs) THEN 0 ELSE Len(bs[b].list_) + SumLen(bs, b + 1)

\* the number of entries the table stores
EntryCount(T) == SumLen(T.buckets, 1)

\* C8: for every directory index i, the bucket b it references and every key k
\* stored in b, the low d_local(b) bits of i equal those of hash(k); so every
\* stored key is in the bucket referenced by dir[hash(k) & (2^d_global - 1)].
C8_SlotsMatchKeys ==
  /\ \A i \in 1..Len(dir) : \A k \in KeysOf(Table, dir[i]) :
       LowBits(i - 1, buckets[dir[i]].depth_) = LowBits(Hash(k), buckets[dir[i]].depth_)
  /\ \A b \in DOMAIN buckets : \A k \in KeysOf(Table, b) :
       Slot(Table, IndexOf(Table, k)) = b

\* after an Insert the directory has four slots or more, and a bucket shallower
\* than the directory holds a key
C8_Witness ==
  /\ h_op = "Insert"
  /\ global_depth >= 2
  /\ num_buckets >= 3
  /\ \E b \in DOMAIN buckets : buckets[b].depth_ < global_depth /\ KeysOf(Table, b) # {}

\* C9: Find(k) right after Insert(k, v) returns v, also when the insert doubles
\* the directory and splits buckets; an Insert of a key that is already stored
\* replaces its value and leaves num_buckets, the global depth and the number
\* of stored entries as they were, also when the key's bucket is full.
C9_InsertThenFind ==
  h_op = "Insert" =>
    /\ TableFind(Table, h_arg[1]) = <<TRUE, h_arg[2]>>
    /\ Stored(h_entry, h_arg[1]) =>
         /\ num_buckets = h_entry.num_buckets
         /\ global_depth = h_entry.global_depth
         /\ dir = h_entry.dir
         /\ EntryCount(Table) = EntryCount(h_entry)

\* an Insert replaced the value of a key whose bucket was full
C9_Witness ==
  /\ h_op = "Insert"
  /\ TableFind(h_entry, h_arg[1])[1]
  /\ TableFind(h_entry, h_arg[1])[2] # h_arg[2]
  /\ IsFull(h_entry.buckets[Slot(h_entry, IndexOf(h_entry, h_arg[1]))])
  /\ h_entry.bucket_size >= 2

\* an Insert of a new key doubled the directory and split a bucket on its way
C9_WitnessSplit ==
  /\ h_op = "Insert"
  /\ ~Stored(h_entry, h_arg[1])
  /\ global_depth >= h_entry.global_depth + 2
  /\ num_buckets > h_entry.num_buckets

\* C10: Remove(k) returns true iff k was stored; after it Find(k) finds
\* nothing; a second Remove(k), and the Remove of any key that is not stored,
\* returns false and leaves the table as it is.
C10_RemoveContract ==
  h_op = "Remove" =>
    /\ h_ret = <<Stored(h_entry, h_arg[1])>>
    /\ TableFind(Table, h_arg[1]) = <<FALSE>>
    /\ ~Stored(Table, h_arg[1])
    /\ ~Stored(h_entry, h_arg[1]) => Table = h_entry
    /\ TableRemove(Table, h_arg[1]) = [ok |-> FALSE, table |-> Table]

\* Remove returned true for a key that shared its bucket with another key
C10_Witness ==
  /\ h_op = "Remove"
  /\ h_ret = <<TRUE>>
  /\ global_depth >= 1
  /\ Len(h_entry.buckets[Slot(h_entry, IndexOf(h_entry, h_arg[1]))].list_) >= 2

\* ================================================ replacer claims, continued
\* C14: every tracked frame's access history has at least 1 and at most K
\* timestamps; RecordAccess on a frame that holds K timestamps appends the new
\* one and discards exactly the oldest.
C14_HistoryBounded ==
  /\ \A f \in DOMAIN frame_map :
       Len(History(frame_map, f)) >= 1 /\ Len(History(frame_map, f)) <= k_
  /\ (op = "RecordAccess" /\ ret = "void" /\ arg[1] \in DOMAIN entry_map) =>
       (Len(History(entry_map, arg[1])) = k_ =>
          History(frame_map, arg[1]) =
            Append(Tail(History(entry_map, arg[1])), current_timestamp - 1))

\* RecordAccess was called on a frame that already held K timestamps
C14_Witness ==
  /\ op = "RecordAccess"
  /\ ret = "void"
  /\ arg[1] \in DOMAIN entry_map
  /\ Len(History(entry_map, arg[1])) = k_

\* C15: the number of frames tracked at the same time never exceeds num_frames
\* when every RecordAccess passed its range assertion; RecordAccess with an id
\* outside the range traps before it changes anything.
C15_TrackedWithinCapacity ==
  /\ Cardinality(DOMAIN frame_map) <= replacer_size_
  /\ (op = "RecordAccess" /\ arg[1] > replacer_size_) =>
       /\ ret = "assert"
       /\ frame_map = entry_map
       /\ curr_size = entry_size

\* the part of C15 that holds: an id above replacer_size_ traps, nothing changes
RecordAccessRangeTraps ==
  (op = "RecordAccess" /\ arg[1] > replacer_size_) =>
    ret = "assert" /\ aborted /\ frame_map = entry_map /\ curr_size = entry_size

\* the timestamps of all histories, each with the place it is stored at
Stamps(map) ==
  UNION {{<<f, i>> : i \in 1..Len(History(map, f))} : f \in DOMAIN map}

\* what holds of the timestamps in every state
TimestampsDistinct ==
  /\ \A p, q \in Stamps(frame_map) :
       p # q => History(frame_map, p[1])[p[2]] # History(frame_map, q[1])[q[2]]
  /\ \A f \in DOMAIN frame_map : \A i \in 1..(Len(History(frame_map, f)) - 1) :
       History(frame_map, f)[i] < History(frame_map, f)[i + 1]
  /\ \A p \in Stamps(frame_map) : History(frame_map, p[1])[p[2]] < current_timestamp

\* what a RecordAccess that returned left alone
RecordAccessFrame ==
  (op = "RecordAccess" /\ ret = "void") =>
    /\ curr_size = entry_size
    /\ DOMAIN frame_map = DOMAIN entry_map \cup {arg[1]}
    /\ \A g \in DOMAIN entry_map : frame_map[g].evictable_ = entry_map[g].evictable_
    /\ arg[1] \notin DOMAIN entry_map =>
         frame_map[arg[1]] =
           [access_history_ |-> <<current_timestamp - 1>>, evictable_ |-> FALSE]

\* a step changes current_timestamp_ only if it is a RecordAccess that
\* returns, and then by exactly 1
TimestampStep ==
  current_timestamp' =
    IF op' = "RecordAccess" /\ ret' = "void"
      THEN current_timestamp + 1 ELSE current_timestamp

\* C20: every RecordAccess that returns increments current_timestamp_ by
\* exactly 1 and no other call changes it, so the timestamps stored in all
\* histories are pairwise distinct and every history is strictly increasing;
\* RecordAccess creates a record with evictable_ = false and changes neither
\* curr_size_ nor any frame's evictable flag.
C20_TimestampsUnique ==
  /\ [](TimestampsDistinct /\ RecordAccessFrame)
  /\ [][TimestampStep]_vars

\* RecordAccess returned on an evictable frame while another frame was tracked
C20_Witness ==
  /\ op = "RecordAccess"
  /\ ret = "void"
  /\ arg[1] \in DOMAIN entry_map
  /\ entry_map[arg[1]].evictable_
  /\ Cardinality(DOMAIN frame_map) >= 2
  /\ current_timestamp >= 3

\* ---------------------------------------------- hash table claims, continued
\* the directory slots (1-based) that reference bucket b
SlotsOf(T, b) == {i \in 1..Len(T.dir) : T.dir[i] = b}

\* C11: the directory has exactly 2^d_global slots and every bucket has
\* 0 <= d_local <= d_global; a doubling appends a copy of the directory
\* (dir[i + old_size] = dir[i]), raises d_global by exactly 1 and changes no
\* bucket's contents or local depth.
C11_DirectoryShape ==
  /\ Len(dir) = 2 ^ global_depth
  /\ \A i \in 1..Len(dir) : dir[i] \in DOMAIN buckets
  /\ \A b \in DOMAIN buckets : buckets[b].depth_ >= 0 /\ buckets[b].depth_ <= global_depth
  /\ h_op = "Insert_double" =>
       /\ Len(dir) = 2 * Len(h_entry.dir)
       /\ \A i \in 1..Len(h_entry.dir) :
            dir[i] = h_entry.dir[i] /\ dir[i + Len(h_entry.dir)] = h_entry.dir[i]
       /\ global_depth = h_entry.global_depth + 1
       /\ buckets = h_entry.buckets
       /\ num_buckets = h_entry.num_buckets

\* a directory of two slots or more, referencing two buckets or more, doubled
C11_Witness ==
  /\ h_op = "Insert_double"
  /\ h_entry.global_depth >= 1
  /\ Cardinality({h_entry.dir[i] : i \in 1..Len(h_entry.dir)}) >= 2

\* C12: every bucket is referenced by exactly 2^(d_global - d_local) slots,
\* exactly the slots whose low d_local bits equal the bucket's signature; two
\* slots share a bucket only if its d_local < d_global; this also holds after
\* the split of a bucket whose local depth is more than one below d_global.
C12_SlotsPerBucket ==
  \A b \in DOMAIN buckets :
    /\ Cardinality(SlotsOf(Table, b)) = 2 ^ (global_depth - buckets[b].depth_)
    /\ \E sig \in 0..(2 ^ buckets[b].depth_ - 1) :
         SlotsOf(Table, b) =
           {i \in 1..Len(dir) : LowBits(i - 1, buckets[b].depth_) = sig}
    /\ Cardinality(SlotsOf(Table, b)) >= 2 => buckets[b].depth_ < global_depth

\* a bucket at least two levels shallower than the directory was split
C12_Witness ==
  /\ h_op = "Insert_split"
  /\ h_entry.buckets[Target(h_entry, ins[1])].depth_ + 2 <= h_entry.global_depth
  /\ \E b \in DOMAIN buckets : Cardinality(SlotsOf(Table, b)) >= 2

\* a pass of Insert's loop that did not store the entry raised the local depth
\* of the bucket the key maps to, or the global depth
PassRaisesDepth ==
  h_op' \in {"Insert_split", "Insert_double"} =>
    \/ /\ h_op' = "Insert_split"
       /\ global_depth' = global_depth
       /\ buckets'[Target(Table, ins[1])].depth_ = buckets[Target(Table, ins[1])].depth_ + 1
       /\ buckets'[Target(Table', ins[1])].depth_ = buckets[Target(Table, ins[1])].depth_ + 1
    \/ /\ h_op' = "Insert_double"
       /\ global_depth' = global_depth + 1

\* C13: with bucket_size >= 1 and the identity hash on bounded integers every
\* Insert terminates: each pass of its loop that does not store the entry
\* strictly raises the local depth of the key's bucket or the global depth.
C13_InsertTerminates ==
  /\ [][PassRaisesDepth]_vars
  /\ (~Idle) ~> Idle

\* a split left the key's bucket full: the Insert needs another pass
C13_Witness ==
  /\ h_op = "Insert_split"
  /\ ~Idle
  /\ ~Attempt.ok
  /\ global_depth >= 2

\* C16: GetNumBuckets() equals the number of distinct buckets the directory
\* references: 1 at construction, one more after each bucket split (also when
\* the sibling receives no entry), unchanged by a doubling, an overwrite, Find
\* and Remove; it never decreases.
C16_NumBucketsCountsBuckets ==
  /\ GetNumBuckets(Table) = Cardinality({dir[i] : i \in 1..Len(dir)})
  /\ h_op = "new" => GetNumBuckets(Table) = 1
  /\ h_op = "Insert_split" => GetNumBuckets(Table) = GetNumBuckets(h_entry) + 1
  /\ h_op \in {"Insert_call", "Insert_store", "Insert_double", "Find", "Remove"} =>
       GetNumBuckets(Table) = GetNumBuckets(h_entry)
  /\ GetNumBuckets(Table) >= GetNumBuckets(h_entry)

\* a split whose sibling received no entry
C16_Witness ==
  /\ h_op = "Insert_split"
  /\ buckets[Len(buckets)].list_ = <<>>
  /\ GetNumBuckets(Table) = GetNumBuckets(h_entry) + 1
  /\ GetNumBuckets(Table) >= 3

\* the entries of bucket b, as a set of (key, value) pairs
EntriesOf(T, b) == {T.buckets[b].list_[j] : j \in 1..Len(T.buckets[b].list_)}

\* the positions <<bucket, index>> of the table's entries
Places(T) == UNION {{<<b, j>> : j \in 1..Len(T.buckets[b].list_)} : b \in DOMAIN T.buckets}

\* C17: whenever no Insert is running (the table lock is free between calls)
\* no bucket holds more than bucket_size entries and no key appears in more
\* than one entry of the table; a split moves entries only between the full
\* bucket and its new sibling, and the sibling receives at most bucket_size
\* entries.
C17_BucketsBounded ==
  /\ Idle =>
       /\ \A b \in DOMAIN buckets : Len(buckets[b].list_) <= bucket_size
       /\ \A x, y \in Places(Table) :
            buckets[x[1]].list_[x[2]][1] = buckets[y[1]].list_[y[2]][1] => x = y
  /\ h_op = "Insert_split" =>
       LET old == Target(h_entry, ins[1])
           new == Len(buckets)
       IN /\ new = Len(h_entry.buckets) + 1
          /\ \A b \in DOMAIN h_entry.buckets \ {old} :
               buckets[b].list_ = h_entry.buckets[b].list_
          /\ EntriesOf(Table, old) \cup EntriesOf(Table, new) = EntriesOf(h_entry, old)
          /\ Len(buckets[old].list_) + Len(buckets[new].list_) = Len(h_entry.buckets[old].list_)
          /\ Len(buckets[new].list_) <= bucket_size

\* a split moved an entry to the sibling while another bucket held an entry
C17_Witness ==
  /\ h_op = "Insert_split"
  /\ Len(buckets[Len(buckets)].list_) >= 1
  /\ \E b \in DOMAIN h_entry.buckets \ {Target(h_entry, ins[1])} : buckets[b].list_ # <<>>

\* what a plain map answers to a lookup of key, in the shape of Find's result
Lookup(map, key) == IF key \in DOMAIN map THEN <<TRUE, map[key]>> ELSE <<FALSE>>

\* C18: the table refines a plain key -> value map: after any sequence of
\* Insert and Remove calls Find(k) returns for every key k what the map given
\* the same calls holds for k; Insert(k, v) and Remove(k) never change Find(k')
\* for k' # k, also when the Insert doubles the directory and a split moves k'
\* to a sibling bucket.
C18_RefinesMap ==
  /\ \A k \in Keys : TableFind(Table, k) = Lookup(ref, k)
  /\ h_op = "Find" => h_ret = Lookup(ref, h_arg[1])
  /\ h_op \in {"Insert", "Remove"} =>
       \A k \in Keys \ {h_arg[1]} : TableFind(Table, k) = TableFind(h_entry, k)

\* an Insert doubled the directory and a split moved another stored key to a
\* bucket made during the call
C18_Witness ==
  /\ h_op = "Insert"
  /\ global_depth > h_entry.global_depth
  /\ \E k \in Keys \ {h_arg[1]} :
       /\ Stored(h_entry, k)
       /\ Slot(Table, IndexOf(Table, k)) > Len(h_entry.buckets)
       /\ k \in KeysOf(Table, Slot(Table, IndexOf(Table, k)))

\* the local depth seen from directory slot i (1-based)
LocalDepth(T, i) == T.buckets[T.dir[i]].depth_

\* C19: Remove and Find never change the directory's slot-to-bucket
\* assignment, the global depth, a bucket's local depth or num_buckets (no
\* merge, no shrink); so over any sequence of calls the global depth, every
\* slot's local depth and num_buckets never decrease.
C19_NoShrink ==
  /\ h_op \in {"Find", "Remove"} =>
       /\ dir = h_entry.dir
       /\ global_depth = h_entry.global_depth
       /\ num_buckets = h_entry.num_buckets
       /\ Len(buckets) = Len(h_entry.buckets)
       /\ \A b \in DOMAIN buckets : buckets[b].depth_ = h_entry.buckets[b].depth_
  /\ global_depth >= h_entry.global_depth
  /\ num_buckets >= h_entry.num_buckets
  /\ \A i \in 1..Len(h_entry.dir) : LocalDepth(Table, i) >= LocalDepth(h_entry, i)

\* Remove emptied a bucket that had been split off, in a directory of four
\* slots or more
C19_Witness ==
  /\ h_op = "Remove"
  /\ h_ret = <<TRUE>>
  /\ global_depth >= 2
  /\ buckets[Slot(Table, IndexOf(Table, h_arg[1]))].list_ = <<>>
  /\ buckets[Slot(Table, IndexOf(Table, h_arg[1]))].depth_ >= 1

====
